---- MODULE Spec2Model ----
(***************************************************************************)
(* immutable-core-service: a process-wide register of named services, each *)
(* with an asynchronous initialize method whose result becomes the shared  *)
(* module data, re-run by a global one-second interval check.              *)
(*                                                                         *)
(* Service instances are JavaScript objects: they are numbered in the      *)
(* order the constructor registers them and stay alive (referenced by      *)
(* their pending promise chains) after reset() drops the register.         *)
(***************************************************************************)
EXTENDS Integers, Sequences, FiniteSets, TLC

\* ------------------------------------------------------------------ bounds

\* service instances the constructor may register in one run
MaxServices == 2
\* invocations of initialize methods in one run
MaxCalls == 2
\* the clock (getTimeSeconds) runs from 0 to MaxTime
MaxTime == 1
\* setInterval timers running at the same time
MaxTimers == 2
\* initializeAll() calls in one run
MaxInitAll == 1

\* --------------------------------------------------- JavaScript values

\* undefined, and a defined value v
None == << >>
Some(v) == << v >>
\* if-defined
defined(x) == x # None

\* a < b on numbers, false when b is undefined (undefined converts to NaN)
LessThan(a, b) == defined(b) /\ a < b[1]

\* service names the callers use
Names == {"foo", "bar"}
\* values an initialize method resolves with ({foo: true}, {foo: false})
DataValues == {"fooTrue", "fooFalse"}

\* ------------------------------------------------------------- variables

VARIABLES
    now,        \* getTimeSeconds()
    services,   \* global.__immutable_core_service__.services: instances in insertion order
    interval,   \* global.__immutable_core_service__.interval: a timer id or undefined
    svc,        \* the service instances ever registered, live or dropped by reset
    promises,   \* the promise chain of every initialize invocation
    timers,     \* ids of the setInterval timers that are set and not cleared
    initAlls,   \* the initializeAll() calls ever made
    quiet       \* no lifecycle operation has been called since the last reset()

vars == << now, services, interval, svc, promises, timers, initAlls, quiet >>

\* --------------------------------------------------------- pure helpers

Digits == {"0", "1", "2", "3", "4", "5", "6", "7", "8", "9"}

DigitValue(c) ==
    CASE c = "0" -> 0 [] c = "1" -> 1 [] c = "2" -> 2 [] c = "3" -> 3 [] c = "4" -> 4
      [] c = "5" -> 5 [] c = "6" -> 6 [] c = "7" -> 7 [] c = "8" -> 8 [] c = "9" -> 9

\* the value of the longest prefix of digits of str, read after acc; undefined
\* stands for NaN (no digit read)
RECURSIVE ParseDigits(_, _)
ParseDigits(str, acc) ==
    IF str = << >> \/ Head(str) \notin Digits
    THEN acc
    ELSE ParseDigits(Tail(str),
                     Some((IF defined(acc) THEN acc[1] ELSE 0) * 10 + DigitValue(Head(str))))

\* parseInt of the string form of a value: leading blanks, a sign, then digits;
\* whatever follows the digits is ignored
RECURSIVE parseInt(_)
parseInt(str) ==
    IF str = << >> THEN None
    ELSE IF Head(str) = " " THEN parseInt(Tail(str))
    ELSE IF Head(str) = "-"
         THEN LET n == ParseDigits(Tail(str), None)
              IN  IF defined(n) THEN Some(0 - n[1]) ELSE None
    ELSE IF Head(str) = "+" THEN ParseDigits(Tail(str), None)
    ELSE ParseDigits(str, None)

\* the stable id of a data value, as the tests read it from getDataId
StableId(data) ==
    CASE data = "fooTrue" -> "ce35fd691fe6c26448191f4528e1ffef"
      [] data = "fooFalse" -> "4da787ba25545ca80765298be5676370"

\* module.meta of a module ImmutableCore.module() has just created
NewMeta == [data |-> None, dataId |-> ""]

\* module.meta.data = data: ImmutableCore stores the data with its id
SetMetaData(meta, data) == [data |-> Some(data), dataId |-> StableId(data)]

\* an assignment to a property of the data getData returned: ImmutableCore
\* froze the data, so the assignment throws and the data stay
AssignDataField(meta) == [meta |-> meta, throws |-> TRUE]

\* ------------------------------------------------------------- accessors

\* the live instances: the values of the global services register
Registered == { services[i] : i \in 1..Len(services) }

hasService(name) == \E s \in Registered : svc[s].name = name

getData(s) == svc[s].meta.data

getDataId(s) == svc[s].meta.dataId

getTimeSeconds == now

\* the invocations of the initialize method of instance s
CallsOf(P, s) == { p \in 1..Len(P) : P[p].service = s }

\* a chain is in flight from the invocation until its then or catch callback ran
InFlight(P) == { p \in 1..Len(P) : P[p].state = "pending" }

\* ------------------------------------------------------ initializeService

\* the promise chain initialize(...).then(...).catch(...) of an invocation for
\* instance s. state: "pending" until the initialize method settled and the then
\* or catch callback ran, then "fulfilled", or "failed" if the callback threw.
\* value: what the method resolved with. meta: the module data when the method
\* was invoked. errors: the console.error calls of the chain. started:
\* getTimeSeconds() when the method was invoked.
NewPromise(S, s) ==
    [service |-> s, state |-> "pending", value |-> None, meta |-> S[s].meta, errors |-> 0,
     started |-> getTimeSeconds]

\* IsFresh with the comparison inverted
IsFreshInverted(service, t) ==
    /\ defined(service.lastInitialized)
    /\ defined(service.reinitializeInterval)
    /\ t - service.lastInitialized[1] > service.reinitializeInterval[1]

\* IsFresh with <= for <
IsFreshInclusive(service, t) ==
    /\ defined(service.lastInitialized)
    /\ defined(service.reinitializeInterval)
    /\ t - service.lastInitialized[1] <= service.reinitializeInterval[1]

\* the service needs no (re)initialize: it was initialized less than
\* reinitializeInterval seconds ago
IsFresh(service, t) ==
    /\ defined(service.lastInitialized)
    /\ LessThan(t - service.lastInitialized[1], service.reinitializeInterval)

\* initializeService without the test of initializePromise
initializeServiceNoJoin(S, P, s) ==
    IF IsFresh(S[s], getTimeSeconds)
    THEN [svc |-> S, promises |-> P, ret |-> None]
    ELSE [svc |-> [S EXCEPT ![s].initializePromise = Some(Len(P) + 1)],
          promises |-> Append(P, NewPromise(S, s)),
          ret |-> Some(Len(P) + 1)]

\* initializeService(service) at time getTimeSeconds(): the instances, the
\* promise chains, and the promise returned (or undefined)
initializeService(S, P, s) ==
    IF defined(S[s].initializePromise)
    THEN [svc |-> S, promises |-> P, ret |-> S[s].initializePromise]
    ELSE IF IsFresh(S[s], getTimeSeconds)
    THEN [svc |-> S, promises |-> P, ret |-> None]
    ELSE [svc |-> [S EXCEPT ![s].initializePromise = Some(Len(P) + 1)],
          promises |-> Append(P, NewPromise(S, s)),
          ret |-> Some(Len(P) + 1)]

\* servicesAll(initializeService): initializeService for the instances of the
\* sequence register in key order; rets collects the promises handed to Promise.all
RECURSIVE servicesAllFrom(_, _, _, _)
servicesAllFrom(register, S, P, rets) ==
    IF register = << >>
    THEN [svc |-> S, promises |-> P, rets |-> rets]
    ELSE LET r == initializeService(S, P, Head(register))
         IN  servicesAllFrom(Tail(register), r.svc, r.promises,
                             IF defined(r.ret) THEN rets \cup {r.ret[1]} ELSE rets)

servicesAll == servicesAllFrom(services, svc, promises, {})

\* the then callback without the assignment of the module data
thenCallbackNoData(service, data, t) ==
    [service EXCEPT !.initializePromise = None, !.lastInitialized = Some(t)]

\* the then callback without the assignment of lastInitialized
thenCallbackNoTime(service, data, t) ==
    [service EXCEPT !.initializePromise = None,
                    !.meta = SetMetaData(service.meta, data)]

\* the then callback of the chain: initialize resolved with data at time t
thenCallback(service, data, t) ==
    [service EXCEPT !.initializePromise = None,
                    !.lastInitialized = Some(t),
                    !.meta = SetMetaData(service.meta, data)]

\* the catch callback also dropping the module data
catchCallbackClearsData(service) ==
    [service |-> [service EXCEPT !.initializePromise = None, !.meta = NewMeta],
     errors |-> 1,
     throws |-> FALSE]

\* the catch callback without the reset of initializePromise
catchCallbackKeepsPromise(service) ==
    [service |-> service, errors |-> 1, throws |-> FALSE]

\* the catch callback throwing the error again after logging it
catchCallbackRethrows(service) ==
    [service |-> [service EXCEPT !.initializePromise = None],
     errors |-> 1,
     throws |-> TRUE]

\* the catch callback of the chain: what it leaves of the instance, how many
\* times it calls console.error, and whether it throws
catchCallback(service) ==
    [service |-> [service EXCEPT !.initializePromise = None],
     errors |-> 1,
     throws |-> FALSE]

\* --------------------------------------------------------------- timers

\* reinitializeStop(): clearInterval of the timer the global data names
reinitializeStop(T, iv) ==
    IF defined(iv) THEN T \ {iv[1]} ELSE T

\* the id setInterval returns: one no running timer has (the least such; the
\* id of a cleared timer is free again once the global data names the new one)
NewTimer(T) == CHOOSE t \in 1..MaxTimers : t \notin T /\ \A u \in 1..MaxTimers : u \notin T => t <= u

\* reinitializeStart without the call of reinitializeStop
reinitializeStartNoStop(T, iv) ==
    [timers |-> T \cup {NewTimer(T)}, interval |-> Some(NewTimer(T))]

\* reinitializeStart(): stop, then setInterval and keep the new timer's id
reinitializeStart(T, iv) ==
    LET stopped == reinitializeStop(T, iv)
    IN  [timers |-> stopped \cup {NewTimer(stopped)}, interval |-> Some(NewTimer(stopped))]

\* ------------------------------------------------------ constructor inputs

\* args.reinitializeInterval: undefined, or the string form of the value given
IntervalArgs == { None, Some(<< "1" >>) }

\* One call of the constructor: name is args.name (a string, or a value that is
\* no string), moduleDefined tells whether ImmutableCore already holds a module
\* named after it, initialize is typeof args.initialize, reinitializeInterval
\* is args.reinitializeInterval.
\* calls the constructor accepts, unless the name is registered already
ValidArgs ==
    { [name |-> [type |-> "string", v |-> n], moduleDefined |-> FALSE,
       initialize |-> "function", reinitializeInterval |-> ri] :
          n \in Names, ri \in IntervalArgs }

\* calls the constructor throws on
ThrowingArgs ==
    { [name |-> [type |-> "undefined", v |-> ""], moduleDefined |-> FALSE,
       initialize |-> "function", reinitializeInterval |-> None],
      [name |-> [type |-> "string", v |-> "foo"], moduleDefined |-> TRUE,
       initialize |-> "function", reinitializeInterval |-> None],
      [name |-> [type |-> "string", v |-> "foo"], moduleDefined |-> FALSE,
       initialize |-> "undefined", reinitializeInterval |-> Some(<< "1" >>)],
      [name |-> [type |-> "string", v |-> "foo"], moduleDefined |-> FALSE,
       initialize |-> "string", reinitializeInterval |-> Some(<< "1" >>)],
      [name |-> [type |-> "string", v |-> "bar"], moduleDefined |-> FALSE,
       initialize |-> "function", reinitializeInterval |-> Some(<< "t", "e", "s", "t" >>)] }

ConstructorArgs == ValidArgs \cup ThrowingArgs

\* the constructor calls of the registration tests and their neighbours: the
\* empty name, names that are no string, initialize values that are no function,
\* and intervals "0", "1", "-1" and "test"
RegistrationArgs ==
    { [name |-> nm, moduleDefined |-> FALSE, initialize |-> ini, reinitializeInterval |-> ri] :
          nm \in { [type |-> "undefined", v |-> ""], [type |-> "string", v |-> ""],
                   [type |-> "string", v |-> "foo"], [type |-> "string", v |-> "bar"] },
          ini \in { "function", "undefined", "string" },
          ri \in { None, Some(<< "0" >>), Some(<< "1" >>), Some(<< "-", "1" >>),
                   Some(<< "t", "e", "s", "t" >>) } }

\* ------------------------------------------------------------------ state

Init ==
    /\ now = 0
    /\ services = << >>
    /\ interval = None
    /\ svc = << >>
    /\ promises = << >>
    /\ timers = {}
    /\ initAlls = << >>
    /\ quiet = TRUE

\* ---------------------------------------------------------------- actions

\* the constructor throws: one of its assertions fails, or ImmutableCore.module does
ConstructorThrows(args) ==
    \/ args.name.type # "string"
    \/ args.moduleDefined
    \/ args.initialize # "function"
    \/ hasService(args.name.v)
    \/ /\ defined(args.reinitializeInterval)
       /\ ~defined(parseInt(args.reinitializeInterval[1]))

\* the constructor without the 'already registered' assertion: the new instance
\* takes the key of the one registered under its name
ConstructOverwrites(args) ==
    IF \/ args.name.type # "string"
       \/ args.moduleDefined
       \/ args.initialize # "function"
    THEN UNCHANGED vars
    ELSE /\ Len(svc) < MaxServices
         /\ services' =
                IF hasService(args.name.v)
                THEN [i \in 1..Len(services) |->
                         IF svc[services[i]].name = args.name.v
                         THEN Len(svc) + 1 ELSE services[i]]
                ELSE Append(services, Len(svc) + 1)
         /\ svc' = Append(svc,
                [name |-> args.name.v,
                 initializePromise |-> None,
                 lastInitialized |-> None,
                 meta |-> NewMeta,
                 reinitializeInterval |->
                     IF defined(args.reinitializeInterval)
                     THEN IF defined(parseInt(args.reinitializeInterval[1]))
                          THEN parseInt(args.reinitializeInterval[1])
                          ELSE None
                     ELSE Some(0)])
         /\ UNCHANGED << now, interval, promises, timers, initAlls, quiet >>

\* the constructor calling the initialize method of the instance it registered
ConstructInitializes(args) ==
    IF \/ args.name.type # "string"
       \/ args.moduleDefined
       \/ args.initialize # "function"
       \/ hasService(args.name.v)
    THEN UNCHANGED vars
    ELSE /\ Len(svc) < MaxServices
         /\ Len(promises) < MaxCalls
         /\ services' = Append(services, Len(svc) + 1)
         /\ LET r == initializeService(
                      Append(svc,
                          [name |-> args.name.v,
                           initializePromise |-> None,
                           lastInitialized |-> None,
                           meta |-> NewMeta,
                           reinitializeInterval |->
                               IF defined(args.reinitializeInterval)
                               THEN IF defined(parseInt(args.reinitializeInterval[1]))
                                    THEN parseInt(args.reinitializeInterval[1])
                                    ELSE None
                               ELSE Some(0)]),
                      promises, Len(svc) + 1)
            IN  svc' = r.svc /\ promises' = r.promises
         /\ UNCHANGED << now, interval, timers, initAlls, quiet >>

\* new ImmutableCoreService(args). A throw ends the constructor where it
\* happens and keeps the effects made before it.
Construct(args) ==
    IF \/ args.name.type # "string"       \* 'name required'
       \/ args.moduleDefined              \* ImmutableCore.module throws
       \/ args.initialize # "function"    \* 'initialize function required'
       \/ hasService(args.name.v)         \* 'already registered'
    THEN UNCHANGED vars
    ELSE /\ Len(svc) < MaxServices
         /\ services' = Append(services, Len(svc) + 1)
         /\ svc' = Append(svc,
                [name |-> args.name.v,
                 initializePromise |-> None,
                 lastInitialized |-> None,
                 meta |-> NewMeta,
                 \* the interval is validated after the instance is registered:
                 \* when parseInt gives NaN the constructor throws and the
                 \* property is never set
                 reinitializeInterval |->
                     IF defined(args.reinitializeInterval)
                     THEN IF defined(parseInt(args.reinitializeInterval[1]))
                          THEN parseInt(args.reinitializeInterval[1])
                          ELSE None
                     ELSE Some(0)])
         /\ UNCHANGED << now, interval, promises, timers, initAlls, quiet >>

\* initializeAll() is called: the fan-out of servicesAll(initializeService);
\* Promise.all and the then callback follow in InitializeAllSettle. The call
\* is recorded with the promises handed to Promise.all (waits), the instances
\* registered at the call, and the number of invocations before and after it.
InitializeAll ==
    /\ Len(initAlls) < MaxInitAll
    /\ LET r == servicesAll
       IN  /\ Len(r.promises) <= MaxCalls
           /\ svc' = r.svc
           /\ promises' = r.promises
           /\ initAlls' = Append(initAlls,
                  [state |-> "pending", waits |-> r.rets, registered |-> Registered,
                   before |-> Len(promises), upto |-> Len(r.promises)])
    /\ quiet' = FALSE
    /\ UNCHANGED << now, services, interval, timers >>

\* the then callback of initializeAll running before Promise.all settled
initializeAllThenEarly(a) ==
    /\ Cardinality(reinitializeStop(timers, interval)) < MaxTimers
    /\ initAlls' = [initAlls EXCEPT ![a].state = "fulfilled"]
    /\ LET r == reinitializeStart(timers, interval)
       IN  timers' = r.timers /\ interval' = r.interval

\* what the promise of initializeAll call a does once Promise.all settled:
\* rejected if a chain failed, else the then callback calls reinitializeStart()
initializeAllThen(a) ==
    IF \E p \in initAlls[a].waits : promises[p].state = "failed"
    THEN /\ initAlls' = [initAlls EXCEPT ![a].state = "rejected"]
         /\ UNCHANGED << timers, interval >>
    ELSE /\ \A p \in initAlls[a].waits : promises[p].state = "fulfilled"
         /\ Cardinality(reinitializeStop(timers, interval)) < MaxTimers
         /\ initAlls' = [initAlls EXCEPT ![a].state = "fulfilled"]
         /\ LET r == reinitializeStart(timers, interval)
            IN  timers' = r.timers /\ interval' = r.interval

InitializeAllSettle(a) ==
    /\ initAlls[a].state = "pending"
    /\ initializeAllThen(a)
    /\ UNCHANGED << now, services, svc, promises, quiet >>

\* reinitializeCheck() called by the application
ReinitializeCheck ==
    /\ LET r == servicesAll
       IN  /\ Len(r.promises) <= MaxCalls
           /\ svc' = r.svc
           /\ promises' = r.promises
    /\ quiet' = FALSE
    /\ UNCHANGED << now, services, interval, timers, initAlls >>

\* the timer t set by setInterval(reinitializeCheck, 1000) fires
TimerTick(t) ==
    /\ LET r == servicesAll
       IN  /\ Len(r.promises) <= MaxCalls
           /\ svc' = r.svc
           /\ promises' = r.promises
    /\ UNCHANGED << now, services, interval, timers, initAlls, quiet >>

\* reinitializeStart() called by the application
ReinitializeStart ==
    /\ Cardinality(reinitializeStop(timers, interval)) < MaxTimers
    /\ LET r == reinitializeStart(timers, interval)
       IN  timers' = r.timers /\ interval' = r.interval
    /\ quiet' = FALSE
    /\ UNCHANGED << now, services, svc, promises, initAlls >>

\* reinitializeStop() also dropping the promises of the initializes in progress
ReinitializeStopAborts ==
    /\ timers' = reinitializeStop(timers, interval)
    /\ svc' = [s \in 1..Len(svc) |->
                  IF s \in Registered THEN [svc[s] EXCEPT !.initializePromise = None]
                  ELSE svc[s]]
    /\ quiet' = FALSE
    /\ UNCHANGED << now, services, interval, promises, initAlls >>

\* reinitializeStop() called by the application
ReinitializeStop ==
    /\ timers' = reinitializeStop(timers, interval)
    /\ quiet' = FALSE
    /\ UNCHANGED << now, services, interval, svc, promises, initAlls >>

\* reset(): stop the timer, replace the global data by a new, empty one
Reset ==
    /\ timers' = reinitializeStop(timers, interval)
    /\ services' = << >>
    /\ interval' = None
    /\ quiet' = TRUE
    /\ UNCHANGED << now, svc, promises, initAlls >>

\* Resolve with the then callback looking the service up by its name in the
\* register instead of holding the instance
ResolveByName(p, data) ==
    /\ promises[p].state = "pending"
    /\ LET named == { s \in Registered : svc[s].name = svc[promises[p].service].name }
           target == IF named = {} THEN promises[p].service ELSE CHOOSE s \in named : TRUE
       IN  svc' = [svc EXCEPT ![target] = thenCallback(svc[target], data, getTimeSeconds)]
    /\ promises' = [promises EXCEPT ![p].state = "fulfilled", ![p].value = Some(data)]
    /\ UNCHANGED << now, services, interval, timers, initAlls, quiet >>

\* Resolve with the then callback taking the time of the invocation
ResolveAtStart(p, data) ==
    /\ promises[p].state = "pending"
    /\ svc' = [svc EXCEPT ![promises[p].service] =
                  thenCallback(svc[promises[p].service], data, promises[p].started)]
    /\ promises' = [promises EXCEPT ![p].state = "fulfilled", ![p].value = Some(data)]
    /\ UNCHANGED << now, services, interval, timers, initAlls, quiet >>

\* the initialize method of invocation p resolves with data and the then
\* callback of its chain runs
Resolve(p, data) ==
    /\ promises[p].state = "pending"
    /\ svc' = [svc EXCEPT ![promises[p].service] =
                  thenCallback(svc[promises[p].service], data, getTimeSeconds)]
    /\ promises' = [promises EXCEPT ![p].state = "fulfilled", ![p].value = Some(data)]
    /\ UNCHANGED << now, services, interval, timers, initAlls, quiet >>

\* the initialize method of invocation p rejects (with an Error or with
\* undefined, the two kinds error() takes) and the catch callback of its chain runs
Reject(p) ==
    /\ promises[p].state = "pending"
    /\ LET r == catchCallback(svc[promises[p].service])
       IN  /\ svc' = [svc EXCEPT ![promises[p].service] = r.service]
           /\ promises' = [promises EXCEPT
                  ![p].state = IF r.throws THEN "failed" ELSE "fulfilled",
                  ![p].errors = promises[p].errors + r.errors]
    /\ UNCHANGED << now, services, interval, timers, initAlls, quiet >>

\* a caller assigns to a property of the data of service s (getData().foo = false)
MutateData(s) ==
    /\ defined(getData(s))
    /\ svc' = [svc EXCEPT ![s].meta = AssignDataField(svc[s].meta).meta]
    /\ UNCHANGED << now, services, interval, promises, timers, initAlls, quiet >>

\* time passes
AdvanceTime ==
    /\ now < MaxTime
    /\ now' = now + 1
    /\ UNCHANGED << services, interval, svc, promises, timers, initAlls, quiet >>

Next ==
    \/ \E args \in ConstructorArgs : Construct(args)
    \/ InitializeAll
    \/ \E a \in 1..Len(initAlls) : InitializeAllSettle(a)
    \/ ReinitializeCheck
    \/ \E t \in timers : TimerTick(t)
    \/ ReinitializeStart
    \/ ReinitializeStop
    \/ Reset
    \/ \E p \in 1..Len(promises), data \in DataValues : Resolve(p, data)
    \/ \E p \in 1..Len(promises) : Reject(p)
    \/ \E s \in Registered : MutateData(s)
    \/ AdvanceTime

Spec == Init /\ [][Next]_vars

\* registration alone, over the wider constructor inputs: services are created
\* and the register is reset, nothing is initialized
NextRegistration ==
    \/ \E args \in RegistrationArgs : Construct(args)
    \/ Reset

SpecRegistration == Init /\ [][NextRegistration]_vars

\* ------------------------------------------------------- claim vocabulary

\* a step of a scheduling check: initializeAll, reinitializeCheck or a timer tick
CheckStep == InitializeAll \/ ReinitializeCheck \/ \E t \in timers : TimerTick(t)

\* the chain p settles in this step
Settles(p) == promises[p].state = "pending" /\ promises'[p].state # "pending"

\* the initialize method of the settled chain p rejected / resolved
Rejected(P, p) == P[p].state # "pending" /\ P[p].value = None
Resolved(P, p) == P[p].state # "pending" /\ defined(P[p].value)

\* Cold: no snapshot yet. Fresh: a snapshot younger than the interval.
\* Stale: a snapshot as old as the interval or older.
Cold(s) == svc[s].lastInitialized = None
Fresh(s) ==
    /\ defined(svc[s].lastInitialized)
    /\ defined(svc[s].reinitializeInterval)
    /\ now - svc[s].lastInitialized[1] < svc[s].reinitializeInterval[1]
Stale(s) ==
    /\ defined(svc[s].lastInitialized)
    /\ defined(svc[s].reinitializeInterval)
    /\ now - svc[s].lastInitialized[1] >= svc[s].reinitializeInterval[1]

\* this step invokes the initialize method of instance s once more
Invokes(s) ==
    \E p \in (Len(promises) + 1)..Len(promises') :
        /\ promises'[p].service = s
        /\ promises'[p].state = "pending"
        /\ svc'[s].initializePromise = Some(p)

\* --------------------------------------------------------------- claims

\* C1: at most one execution of a service's initialize is in flight at any
\* time, initializePromise names it, and every initializeAll call that reached
\* the service while it was in flight holds that same promise and no other.
C1_AtMostOneInFlight ==
    /\ \A s \in 1..Len(svc) :
         LET fl == CallsOf(promises, s) \cap InFlight(promises)
         IN  /\ Cardinality(fl) <= 1
             /\ (fl = {}) <=> (svc[s].initializePromise = None)
             /\ \A p \in fl : svc[s].initializePromise = Some(p)
    /\ \A a \in 1..Len(initAlls) : \A s \in initAlls[a].registered :
         /\ Cardinality({ p \in initAlls[a].waits : promises[p].service = s }) <= 1
         /\ \A p \in CallsOf(promises, s) \cap InFlight(promises) :
              p <= initAlls[a].upto => p \in initAlls[a].waits

\* C1 witness: an initializeAll call joined an invocation made before it, which
\* then resolved once, and the caller sees the data of that one invocation
C1_Witness ==
    \E a \in 1..Len(initAlls) : \E p \in initAlls[a].waits :
        /\ p <= initAlls[a].before
        /\ initAlls[a].state = "fulfilled"
        /\ Resolved(promises, p)
        /\ CallsOf(promises, promises[p].service) = {p}
        /\ getData(promises[p].service) = promises[p].value

C3_FailureNotPoisoned ==
    [][ /\ \A p \in 1..Len(promises) :
              Settles(p) =>
                  /\ svc'[promises[p].service].initializePromise = None
                  /\ Resolved(promises', p) =>
                         getData(promises[p].service)' = promises'[p].value
        /\ CheckStep =>
              \A s \in Registered :
                  (svc[s].initializePromise = None /\ (Cold(s) \/ Stale(s))) => Invokes(s)
      ]_vars

\* C3 witness: an initialize rejected, a later one for the same service
\* resolved, and its data is served
C3_Witness ==
    \E p, q \in 1..Len(promises) :
        /\ p < q
        /\ promises[p].service = promises[q].service
        /\ Rejected(promises, p)
        /\ Resolved(promises, q)
        /\ getData(promises[q].service) = promises[q].value

C6_FreshNotRefreshed ==
    [][ CheckStep =>
            \A s \in Registered :
                Fresh(s) =>
                    /\ svc'[s] = svc[s]
                    /\ CallsOf(promises', s) = CallsOf(promises, s)
      ]_vars

\* C6 witness: initializeAll reached a service initialized before the call and
\* within its interval: it got no promise for it and invoked nothing
C6_Witness ==
    \E a \in 1..Len(initAlls) : \E s \in initAlls[a].registered :
        /\ Fresh(s)
        /\ \A p \in initAlls[a].waits : promises[p].service # s
        /\ Cardinality(CallsOf(promises, s)) = 1
        /\ initAlls[a].upto = initAlls[a].before

\* C7: a check that finds a registered service with a positive interval, a
\* snapshot at least as old as the interval and nothing in flight invokes
\* initialize again; when an invocation resolves, getData and getDataId are
\* those of the value it resolved with.
C7_StaleRefreshed ==
    [][ /\ CheckStep =>
              \A s \in Registered :
                  ( /\ Stale(s)
                    /\ svc[s].reinitializeInterval[1] > 0
                    /\ svc[s].initializePromise = None ) => Invokes(s)
        /\ \A p \in 1..Len(promises) :
              (Settles(p) /\ Resolved(promises', p)) =>
                  /\ getData(promises[p].service)' = promises'[p].value
                  /\ getDataId(promises[p].service)' = StableId(promises'[p].value[1])
      ]_vars

\* C7 witness: with the timer running, a service with interval 1 was
\* initialized twice and serves the second, different value
C7_Witness ==
    \E p, q \in 1..Len(promises) :
        LET s == promises[p].service
        IN  /\ p < q
            /\ promises[q].service = s
            /\ svc[s].reinitializeInterval = Some(1)
            /\ Resolved(promises, p)
            /\ Resolved(promises, q)
            /\ promises[p].value # promises[q].value
            /\ getData(s) = promises[q].value
            /\ getDataId(s) = StableId(promises[q].value[1])
            /\ timers # {}

\* C8: whenever a service has a snapshot, getData is the value its latest
\* resolved initialize gave and getDataId is the non-empty id of that data.
C8_DataIdMatchesData ==
    \A s \in 1..Len(svc) :
        LET done == { p \in CallsOf(promises, s) : Resolved(promises, p) }
        IN  /\ (done # {}) <=> defined(svc[s].lastInitialized)
            /\ done # {} =>
                   /\ \E p \in done :
                          /\ \A q \in done : q <= p
                          /\ getData(s) = promises[p].value
                   /\ getDataId(s) = StableId(getData(s)[1])
                   /\ getDataId(s) # ""

\* C8 witness: a second initialize changed the data, and the id is that of the
\* new data, not of the superseded one
C8_Witness ==
    \E p, q \in 1..Len(promises) :
        /\ p < q
        /\ promises[p].service = promises[q].service
        /\ Resolved(promises, p)
        /\ Resolved(promises, q)
        /\ promises[p].value # promises[q].value
        /\ getDataId(promises[q].service) = StableId(promises[q].value[1])
        /\ getDataId(promises[q].service) # StableId(promises[p].value[1])

\* C9 (as claimed): no timer tick and no reinitializeCheck invokes initialize
\* of a registered service whose interval is 0 once it has been initialized.
C9_ZeroIntervalNeverReinitialized ==
    [][ (ReinitializeCheck \/ \E t \in timers : TimerTick(t)) =>
            \A s \in Registered :
                (svc[s].reinitializeInterval = Some(0) /\ defined(svc[s].lastInitialized))
                    => CallsOf(promises', s) = CallsOf(promises, s)
      ]_vars

\* C10 (as claimed): reset() leaves no service registered and no timer
\* running, and as long as no lifecycle operation is called after it no
\* initialize method is invoked.
C10_ResetStopsEverything ==
    [][ /\ Reset => (\A n \in Names : ~hasService(n)') /\ timers' = {}
        /\ (quiet /\ quiet') => Len(promises') = Len(promises)
      ]_vars

\* C11: at most one interval timer is set at any time, whatever sequence of
\* reinitializeStart, initializeAll, reinitializeStop and reset was called, and
\* the global data names the one that is set; calling reinitializeStart a second
\* time leaves what the first call left: one timer, the one the global data names.
C11_AtMostOneTimer ==
    /\ Cardinality(timers) <= 1
    /\ \A t \in timers : interval = Some(t)
    /\ LET once == reinitializeStart(timers, interval)
           twice == reinitializeStart(once.timers, once.interval)
       IN  /\ Cardinality(once.timers) = 1
           /\ twice = once

\* C11 witness: one timer is running and the global data names it, after
\* initializeAll was called with a service registered, completed (which sets a
\* timer), and reset() dropped the register (which stops the timer it finds)
C11_Witness ==
    /\ Cardinality(timers) = 1
    /\ \A t \in timers : interval = Some(t)
    /\ services = << >>
    /\ \E a \in 1..Len(initAlls) :
          initAlls[a].state = "fulfilled" /\ initAlls[a].registered # {}

\* the timer the global data names was cleared and no other one set
TimerStopped == defined(interval) /\ interval[1] \notin timers

\* C12: reinitializeStop() changes no service instance and no promise chain, so
\* an initialize in progress stays in progress; and when an initialize resolves
\* while the timer is stopped, its data is published with its time and the
\* initializePromise of the service is cleared.
C12_StopKeepsInFlight ==
    [][ /\ ReinitializeStop => (svc' = svc /\ promises' = promises)
        /\ \A p \in 1..Len(promises) :
              (TimerStopped /\ Settles(p) /\ Resolved(promises', p)) =>
                  /\ getData(promises[p].service)' = promises'[p].value
                  /\ svc'[promises[p].service].lastInitialized = Some(now)
                  /\ svc'[promises[p].service].initializePromise = None
      ]_vars

\* C12 witness: initializeAll completed and set the timer, the timer the global
\* data names is stopped, and an initialize invoked by a check after the
\* initializeAll call has resolved: its data is served and its promise cleared
C12_Witness ==
    /\ TimerStopped
    /\ \E a \in 1..Len(initAlls) : \E p \in 1..Len(promises) :
          /\ initAlls[a].state = "fulfilled"
          /\ p > initAlls[a].upto
          /\ Resolved(promises, p)
          /\ promises[p].service \in Registered
          /\ getData(promises[p].service) = promises[p].value
          /\ svc[promises[p].service].initializePromise = None

\* the arguments the claim calls invalid: a name that is no non-empty string, an
\* initialize that is no function, an interval that does not parse as an
\* integer that is at least 0
InvalidArgs(args) ==
    \/ args.name.type # "string"
    \/ args.name.v = ""
    \/ args.initialize # "function"
    \/ /\ defined(args.reinitializeInterval)
       /\ \/ ~defined(parseInt(args.reinitializeInterval[1]))
          \/ parseInt(args.reinitializeInterval[1])[1] < 0

\* C13 (as claimed): the constructor throws on every invalid argument; an
\* instance it creates without throwing has reinitializeInterval 0 when none
\* was given and the parsed integer otherwise.
C13_RegistrationValidates ==
    [][ \A args \in RegistrationArgs :
            Construct(args) =>
                /\ InvalidArgs(args) => ConstructorThrows(args)
                /\ ~ConstructorThrows(args) =>
                       /\ Len(svc') = Len(svc) + 1
                       /\ svc'[Len(svc')].reinitializeInterval =
                              IF defined(args.reinitializeInterval)
                              THEN parseInt(args.reinitializeInterval[1])
                              ELSE Some(0)
      ]_vars

\* C14: no two registered services have the same name; a constructor call with
\* a name that is registered throws and changes neither the register nor any
\* instance (initialize method, interval, data and initializePromise stay).
C14_NoDuplicateNames ==
    [][ /\ \A i, j \in 1..Len(services') :
              svc'[services'[i]].name = svc'[services'[j]].name => i = j
        /\ \A args \in ConstructorArgs :
              (Construct(args) /\ args.name.type = "string" /\ hasService(args.name.v)) =>
                  /\ ConstructorThrows(args)
                  /\ services' = services
                  /\ svc' = svc
      ]_vars

\* C14 witness: a registered service has data and an initialize in progress,
\* and a constructor call that is valid but for its registered name throws
C14_Witness ==
    \E s \in Registered :
        /\ defined(svc[s].lastInitialized)
        /\ defined(svc[s].initializePromise)
        /\ \E args \in ValidArgs : args.name.v = svc[s].name /\ ConstructorThrows(args)

\* C15: an assignment to a property of the data getData returned throws and
\* leaves data and data id as they were; and whenever the data or the data id
\* of an instance change, it is because an initialize of that instance
\* resolved, and they are those of the value it resolved with.
C15_DataImmutable ==
    [][ \A s \in 1..Len(svc) :
            /\ defined(getData(s)) =>
                   /\ AssignDataField(svc[s].meta).throws
                   /\ AssignDataField(svc[s].meta).meta = svc[s].meta
            /\ (getData(s)' # getData(s) \/ getDataId(s)' # getDataId(s)) =>
                   \E p \in CallsOf(promises, s) :
                       /\ Settles(p)
                       /\ Resolved(promises', p)
                       /\ getData(s)' = promises'[p].value
                       /\ getDataId(s)' = StableId(promises'[p].value[1])
      ]_vars

\* C15 witness: a registered service serves the data of its second initialize,
\* which differ from those of the first, an initialize that rejected in between
\* or after changed nothing, and an assignment to the data throws
C15_Witness ==
    \E s \in Registered : \E p, q \in CallsOf(promises, s) :
        /\ p < q
        /\ Resolved(promises, p)
        /\ Resolved(promises, q)
        /\ promises[p].value # promises[q].value
        /\ getData(s) = promises[q].value
        /\ AssignDataField(svc[s].meta).throws

\* C16: for a registered service that was never initialized with success,
\* getDataId returns the empty string (a defined value), and getData undefined.
C16_ColdDataIdIsEmptyString ==
    \A s \in Registered :
        Cold(s) => (getDataId(s) = "" /\ getData(s) = None)

\* C16 witness: a registered service whose only initialize rejected serves
\* the empty data id
C16_Witness ==
    \E s \in Registered :
        /\ Cold(s)
        /\ CallsOf(promises, s) # {}
        /\ \A p \in CallsOf(promises, s) : Rejected(promises, p)
        /\ getDataId(s) = ""

C18_SnapshotsOrdered ==
    [][ \A p \in 1..Len(promises) :
            (Settles(p) /\ Resolved(promises', p)) =>
                LET s == promises[p].service
                IN  /\ defined(svc[s].lastInitialized) =>
                           svc'[s].lastInitialized[1] >= svc[s].lastInitialized[1]
                    /\ \A q \in CallsOf(promises, s) :
                           q > p => promises[q].state = "pending"
                    /\ \A q \in CallsOf(promises, s) :
                           Resolved(promises, q) =>
                               q < p /\ promises[q].started <= promises[p].started
      ]_vars

\* C18 witness: two initializes of one instance resolved, the first at time 0
\* and the second, invoked at time 1, at time 1, and the second one's data
\* is served
C18_Witness ==
    \E s \in 1..Len(svc) : \E p, q \in CallsOf(promises, s) :
        /\ p < q
        /\ Resolved(promises, p)
        /\ Resolved(promises, q)
        /\ promises[p].started = 0
        /\ promises[q].started = 1
        /\ promises[q].meta.data = promises[p].value
        /\ svc[s].lastInitialized = Some(1)
        /\ getData(s) = promises[q].value

\* C19 (as claimed): when an initialize resolves, lastInitialized is the time
\* at which the check invoked it.
C19_TimestampIsStartTime ==
    [][ \A p \in 1..Len(promises) :
            (Settles(p) /\ Resolved(promises', p)) =>
                svc'[promises[p].service].lastInitialized = Some(promises[p].started)
      ]_vars

\* C19 (amended): when an initialize resolves, lastInitialized is the time at
\* which it resolved, which is not earlier than the time it was invoked; a
\* later check measures the interval from that time.
C19_TimestampIsResolveTime ==
    [][ /\ \A p \in 1..Len(promises) :
              (Settles(p) /\ Resolved(promises', p)) =>
                  /\ svc'[promises[p].service].lastInitialized = Some(getTimeSeconds)
                  /\ getTimeSeconds >= promises[p].started
        /\ CheckStep =>
              \A s \in Registered :
                  ( /\ defined(svc[s].lastInitialized)
                    /\ LessThan(getTimeSeconds - svc[s].lastInitialized[1],
                                svc[s].reinitializeInterval) )
                      => CallsOf(promises', s) = CallsOf(promises, s)
      ]_vars

\* C19 witness: an initialize invoked at time 0 resolved at time 1; the
\* instance, with interval 1, has lastInitialized 1, and at time 1 a check
\* (the initializeAll that came after) did not invoke it again
C19_Witness ==
    \E s \in Registered : \E a \in 1..Len(initAlls) :
        /\ \E p \in 1..initAlls[a].before :
              /\ CallsOf(promises, s) = {p}
              /\ Resolved(promises, p)
              /\ promises[p].started = 0
        /\ initAlls[a].waits = {}
        /\ s \in initAlls[a].registered
        /\ svc[s].lastInitialized = Some(1)
        /\ svc[s].reinitializeInterval = Some(1)
        /\ now = 1

\* C20: when an initialize settles whose instance reset() has dropped from the
\* register, the register stays as it is and no registered instance changes,
\* one registered under the same name included.
C20_OrphanedInitializeIgnored ==
    [][ \A p \in 1..Len(promises) :
            (Settles(p) /\ promises[p].service \notin Registered) =>
                /\ services' = services
                /\ \A s \in Registered : svc'[s] = svc[s]
      ]_vars

\* C20 witness: after a reset a service was registered under the name of a
\* dropped one and invoked at time 0; the initialize of the dropped instance
\* resolved at time 1; the registered service still has no data and its own
\* initialize in progress
C20_Witness ==
    \E p, q \in 1..Len(promises) :
        LET old == promises[p].service
            s == promises[q].service
        IN  /\ old \notin Registered
            /\ s \in Registered
            /\ svc[s].name = svc[old].name
            /\ Resolved(promises, p)
            /\ CallsOf(promises, old) = {p}
            /\ svc[old].lastInitialized = Some(1)
            /\ promises[q].started = 0
            /\ promises[q].state = "pending"
            /\ svc[s].initializePromise = Some(q)
            /\ Cold(s)
            /\ getData(s) = None

\* C21 (as claimed): a constructor call that throws leaves the register as it
\* was, so hasService gives what it gave before for every name, and no
\* initialize method of an instance whose constructor threw (one left without
\* reinitializeInterval) is ever invoked.
C21_FailedRegistrationLeavesRegister ==
    [][ /\ \A args \in ConstructorArgs :
              (Construct(args) /\ ConstructorThrows(args)) =>
                  /\ services' = services
                  /\ \A n \in Names : hasService(n)' = hasService(n)
        /\ \A p \in 1..Len(promises') :
              defined(svc'[promises'[p].service].reinitializeInterval)
      ]_vars

\* C22 (as claimed): the promise of an initializeAll that was called before
\* the last reset() sets no timer when it settles, and while no
\* reinitializeStart or initializeAll (or other lifecycle operation) was
\* called since the last reset() no timer is running.
C22_PendingInitializeAllStartsNoTick ==
    [][ /\ \A a \in 1..Len(initAlls) :
              (quiet /\ InitializeAllSettle(a)) => timers' = timers
        /\ quiet' => timers' = {}
      ]_vars

====
